---- MODULE Spec2Model ----
(***************************************************************************)
(* Model of supabase-api-generator: the schema extractor, the identifier   *)
(* deriver, the method synthesizer, the template manager, the assembler    *)
(* and the generic primitives of the template.                             *)
(*                                                                         *)
(* Text is modelled as a sequence of tokens.  A token is either a single   *)
(* character (the characters of identifiers, the quote and the dollar      *)
(* sign) or a chunk of literal source text; the text a sequence denotes is *)
(* the concatenation of its tokens.                                        *)
(***************************************************************************)
EXTENDS Integers, Sequences, FiniteSets, TLC

VARIABLES
    typeFilePath,   \* args[0]: [given |-> FALSE] or a path
    outputFilePath, \* args[1]: [given |-> FALSE] or a path [dir, base]
    typeFile,       \* the file at TYPE_FILE_PATH: missing, or a schema source
    dirs,           \* the directories that exist
    files,          \* the files of the output directories, by <<dir, base>>
    pc,             \* "start", "scheduled", "done", "exited", "crashed"
    exitCode,       \* the exit status of the process, -1 while it runs
    stderr,         \* what the process wrote to the error stream
    templateContent,\* generateApiClass: its local templateContent
    runLog,         \* one record per run: what it found and what it left
    schema,         \* extraction pipeline: the parse tree of the schema source
    tableNames,     \* generateApiClass: its local tableNames
    outputContent,  \* generateApiClass: its local outputContent
    pipePc,         \* extraction pipeline: "input" before, "done" after
    tableName,      \* generateMethodsForTable: its argument
    forms,          \* generateMethodsForTable: its locals camelCaseName, pascalCaseName,
                    \* singularPascalCase, pluralPascalCase at the return
    block,          \* generateMethodsForTable: the text it returned
    synthPc,        \* "input" before the call, "done" after it
    primCall,       \* the primitive called on the generated class, with its arguments
    primPc,         \* "idle", "awaiting", "returned", "threw"
    storeLog,       \* the requests sent to the data store, in order
    replyLog,       \* the data store's replies, in order
    updatedRecords, \* updateMany: its local updatedRecords
    primResult,     \* what the call returned or threw
    consoleLog      \* what the catch blocks wrote with console.error

synthVars == <<tableName, forms, block, synthPc>>

primVars ==
    <<primCall, primPc, storeLog, replyLog, updatedRecords, primResult, consoleLog>>

pipeVars == <<schema, tableNames, outputContent, pipePc>>

runVars ==
    <<typeFilePath, outputFilePath, typeFile, dirs, files, pc, exitCode, stderr,
      templateContent, runLog>>

vars ==
    <<typeFilePath, outputFilePath, typeFile, dirs, files, pc, exitCode, stderr,
      templateContent, runLog,
      schema, tableNames, outputContent, pipePc, tableName, forms, block, synthPc,
      primCall, primPc, storeLog, replyLog, updatedRecords, primResult, consoleLog>>

\* ------------------------------------------------------------------ bounds

\* Longest list of update requests handed to updateMany.
MaxUpdates == 3

\* Longest identifier drawn from Alphabet.
MaxLen == 3

\* Most nodes (the SourceFile root apart) of a schema's parse tree.
MaxNodes == 4

\* Most tables of a schema of a generation run.
MaxTables == 2

\* Most placeholders in a template file a run finds.
MaxPlaceholders == 2

\* Most runs of the program in a row.
MaxRuns == 2

\* Longest document, in tokens, the program is started again on: a run on a
\* document that holds replacement patterns can multiply its length.
MaxDocLen == 1000

\* ------------------------------------------------------------------ text

\* The characters identifiers are drawn from: lower and upper case letters,
\* the separator and the dollar sign (a legal identifier character).
Alphabet == {"a", "s", "u", "i", "S", "_", "$"}

LowerLetters ==
    <<"a", "b", "c", "d", "e", "f", "g", "h", "i", "j", "k", "l", "m",
      "n", "o", "p", "q", "r", "s", "t", "u", "v", "w", "x", "y", "z">>

UpperLetters ==
    <<"A", "B", "C", "D", "E", "F", "G", "H", "I", "J", "K", "L", "M",
      "N", "O", "P", "Q", "R", "S", "T", "U", "V", "W", "X", "Y", "Z">>

user_type == <<"u", "s", "e", "r", "_", "t", "y", "p", "e">>

UserType == <<"U", "s", "e", "r", "T", "y", "p", "e">>

UserTypes == <<"U", "s", "e", "r", "T", "y", "p", "e", "s">>

\* Identifiers of particular interest, longer than MaxLen.
NamedTables ==
    { user_type,
      <<"u", "s", "e", "r", "_", "t", "y", "p", "e", "s">>,
      <<"u", "s", "e", "r", "_", "t", "y", "p">>,
      <<"U", "s", "e", "r", "_", "t", "y", "p", "e">>,
      <<"U", "S", "E", "R", "_", "t", "Y", "P", "E">>,
      <<"p", "o", "s", "t">>,
      <<"p", "o", "s", "t", "s">>,
      <<"s", "t", "a", "t", "u", "s">>,
      <<"a", "x", "i", "s">>,
      <<"p", "a", "s", "s">> }

\* The element of a one-element set: { e(x) : x \in {v} } binds x to the
\* value of v, as a const declaration does, so that it is computed once.
ValueOf(singleton) == CHOOSE v \in singleton : TRUE

BoundedSeq(S, n) == UNION { [1..k -> S] : k \in 1..n }

\* Every raw identifier the synthesizer is applied to (non-empty).
RawNames == BoundedSeq(Alphabet, MaxLen) \cup NamedTables

IndexOf(seq, c) ==
    IF \E k \in 1..Len(seq) : seq[k] = c
    THEN CHOOSE k \in 1..Len(seq) : seq[k] = c
    ELSE 0

toUpperCaseChar(c) ==
    IF IndexOf(LowerLetters, c) > 0 THEN UpperLetters[IndexOf(LowerLetters, c)] ELSE c

toLowerCaseChar(c) ==
    IF IndexOf(UpperLetters, c) > 0 THEN LowerLetters[IndexOf(UpperLetters, c)] ELSE c

toUpperCase(str) == [k \in 1..Len(str) |-> toUpperCaseChar(str[k])]

toLowerCase(str) == [k \in 1..Len(str) |-> toLowerCaseChar(str[k])]

\* str.charAt(0): the empty string when str is empty
charAt0(str) == IF Len(str) = 0 THEN <<>> ELSE <<str[1]>>

\* str.slice(1)
slice1(str) == IF Len(str) = 0 THEN <<>> ELSE Tail(str)

\* str.slice(0, -1)
sliceDropLast(str) == IF Len(str) = 0 THEN <<>> ELSE SubSeq(str, 1, Len(str) - 1)

endsWith(str, suffix) ==
    /\ Len(suffix) <= Len(str)
    /\ SubSeq(str, Len(str) - Len(suffix) + 1, Len(str)) = suffix

\* First index after from at which tok occurs in line, 0 when none.
IndexAfter(line, tok, from) ==
    IF \E k \in (from + 1)..Len(line) : line[k] = tok
    THEN CHOOSE k \in (from + 1)..Len(line) :
             /\ line[k] = tok
             /\ \A j \in (from + 1)..(k - 1) : line[j] # tok
    ELSE 0

RECURSIVE split(_, _)
\* str.split(sep) for a one-character separator: always at least one segment
split(str, sep) ==
    IF \E k \in 1..Len(str) : str[k] = sep
    THEN LET k == CHOOSE i \in 1..Len(str) :
                      /\ str[i] = sep
                      /\ \A j \in 1..(i - 1) : str[j] # sep
         IN <<SubSeq(str, 1, k - 1)>> \o split(SubSeq(str, k + 1, Len(str)), sep)
    ELSE <<str>>

RECURSIVE join(_, _)
\* parts.join(sep)
join(parts, sep) ==
    IF Len(parts) = 0 THEN <<>>
    ELSE IF Len(parts) = 1 THEN parts[1]
    ELSE parts[1] \o sep \o join(Tail(parts), sep)

capitalize(word) == toUpperCase(charAt0(word)) \o toLowerCase(slice1(word))

toCamelCase(str) ==
    LET words == split(str, "_")
    IN join([k \in 1..Len(words) |->
                IF k = 1 THEN toLowerCase(words[k]) ELSE capitalize(words[k])], <<>>)

\* toPascalCase without the lower-casing of the rest of each word.
toPascalCaseKeepRest(str) ==
    LET words == split(str, "_")
    IN join([k \in 1..Len(words) |-> toUpperCase(charAt0(words[k])) \o slice1(words[k])],
            <<>>)

toPascalCase(str) ==
    LET words == split(str, "_")
    IN join([k \in 1..Len(words) |-> capitalize(words[k])], <<>>)

\* ------------------------------------------------------- method synthesizer

\* Start of a line of the block: a newline and the two-space indent.
NL == "\n  "

\* The names of the parameters the generated methods declare.
ParamNames == {"options", "id", "data", "updates"}

\* One generated member: <verb><name> = (<params>) => this.<prim>(<quoted table><args>);
MethodLine(verb, name, params, prim, table, args) ==
    <<NL, verb>> \o name \o <<" = (">> \o params
        \o <<") => this.", prim, "(", "'">> \o table \o <<"'">> \o args \o <<");">>

\* The type Database[public][Tables][<table>]<tail> of a data parameter.
RowType(table, tail) ==
    <<": Database['public']['Tables'][", "'">> \o table \o <<"'", tail>>

\* NameForms with the override's plural mistyped (no final 's').
NameFormsMistypedOverride(table) ==
    LET pascalCaseName == toPascalCase(table)
        stripped ==
            /\ endsWith(pascalCaseName, <<"s">>)
            /\ ~endsWith(pascalCaseName, <<"s", "s">>)
            /\ ~endsWith(pascalCaseName, <<"u", "s">>)
            /\ ~endsWith(pascalCaseName, <<"i", "s">>)
        singular0 == IF stripped THEN sliceDropLast(pascalCaseName) ELSE pascalCaseName
        plural0 == IF stripped THEN pascalCaseName ELSE pascalCaseName \o <<"s">>
    IN IF table = user_type
       THEN [camel |-> toCamelCase(table), pascal |-> pascalCaseName, singular |-> UserType, plural |-> UserType]
       ELSE [camel |-> toCamelCase(table), pascal |-> pascalCaseName, singular |-> singular0, plural |-> plural0]

\* The names generateMethodsForTable derives before it builds the text.
NameForms(table) ==
    LET pascalCaseName == toPascalCase(table)
        stripped ==
            /\ endsWith(pascalCaseName, <<"s">>)
            /\ ~endsWith(pascalCaseName, <<"s", "s">>)
            /\ ~endsWith(pascalCaseName, <<"u", "s">>)
            /\ ~endsWith(pascalCaseName, <<"i", "s">>)
        singular0 == IF stripped THEN sliceDropLast(pascalCaseName) ELSE pascalCaseName
        plural0 == IF stripped THEN pascalCaseName ELSE pascalCaseName \o <<"s">>
    IN IF table = user_type
       THEN [camel |-> toCamelCase(table), pascal |-> pascalCaseName, singular |-> UserType, plural |-> UserTypes]
       ELSE [camel |-> toCamelCase(table), pascal |-> pascalCaseName, singular |-> singular0, plural |-> plural0]

generateMethodsForTable(tableArg) ==
    ValueOf({
    LET optsAll == "?: { select?: string, idField?: string, limit?: number, page?: number, filters?: Record<string, any> }"
        optsSel == "?: { select?: string, idField?: string }"
        optsId == "?: { idField?: string }"
    IN <<NL, "// ">> \o f.pascal
       \o MethodLine("get", f.plural, <<"options", optsAll>>,
                     "getAll", table, <<", ", "options">>)
       \o MethodLine("get", f.singular, <<"id", ": string", ", ", "options", optsSel>>,
                     "getById", table, <<", ", "id", ", ", "options">>)
       \o MethodLine("create", f.singular, <<"data">> \o RowType(table, "]['Insert']"),
                     "create", table, <<", ", "data">>)
       \o MethodLine("createMany", f.plural, <<"data">> \o RowType(table, "]['Insert'][]"),
                     "createMany", table, <<", ", "data">>)
       \o MethodLine("update", f.singular,
                     <<"id", ": string", ", ", "data">> \o RowType(table, "]['Update']")
                         \o <<", ", "options", optsId>>,
                     "update", table, <<", ", "id", ", ", "data", ", ", "options">>)
       \o MethodLine("updateMany", f.plural,
                     <<"updates", ": Array<{ id: string, data">>
                         \o RowType(table, "]['Update'] }>") \o <<", ", "options", optsId>>,
                     "updateMany", table, <<", ", "updates", ", ", "options">>)
       \o MethodLine("delete", f.singular, <<"id", ": string", ", ", "options", optsId>>,
                     "delete", table, <<", ", "id", ", ", "options">>)
    : table \in {tableArg}, f \in {NameForms(tableArg)} })

\* The compiled build (dist/supabase-api-generator.js) derives its names so:
NameFormsDist(table) ==
    LET pascalCaseName == toPascalCase(table)
    IN [camel |-> toCamelCase(table), pascal |-> pascalCaseName,
        singular |-> IF endsWith(pascalCaseName, <<"s">>)
                     THEN sliceDropLast(pascalCaseName) ELSE pascalCaseName,
        plural |-> pascalCaseName \o <<"s">>]

\* generateMethodsForTable of the compiled build.
generateMethodsForTableDist(table) ==
    LET f == NameFormsDist(table)
    IN <<NL, "// ">> \o f.pascal
       \o MethodLine("get", f.plural, <<>>, "getAll", table, <<>>)
       \o MethodLine("get", f.singular, <<"id", ": string">>,
                     "getById", table, <<", ", "id">>)
       \o MethodLine("create", f.singular, <<"data">> \o RowType(table, "]['Insert']"),
                     "create", table, <<", ", "data">>)
       \o MethodLine("update", f.singular,
                     <<"id", ": string", ", ", "data">> \o RowType(table, "]['Update']"),
                     "update", table, <<", ", "id", ", ", "data">>)
       \o MethodLine("delete", f.singular, <<"id", ": string">>,
                     "delete", table, <<", ", "id">>)

\* --------------------------------------------------------- schema extractor

\* A parse tree is its nodes in source order (the order of their start
\* positions), each with its depth below the SourceFile root (node 0, depth 0)
\* and a label.  Labels:
\*   "T"  PropertySignature, name the identifier Tables
\*   "S"  PropertySignature, name the string literal 'Tables'
\*   "A"  PropertySignature, name the identifier a
\*   "D"  PropertySignature, name the identifier a$
\*   "L"  TypeLiteral
NodeLabels == {"T", "S", "A", "D", "L"}

Tables == <<"T", "a", "b", "l", "e", "s">>

Kind(label) == IF label = "L" THEN "TypeLiteral" ELSE "PropertySignature"

NameKind(label) ==
    CASE label \in {"T", "A", "D"} -> "Identifier"
      [] label = "S" -> "StringLiteral"
      [] OTHER -> "None"

NameText(label) ==
    CASE label \in {"T", "S"} -> Tables
      [] label = "A" -> <<"a">>
      [] label = "D" -> <<"a", "$">>
      [] OTHER -> <<>>

DepthSeqs(n) ==
    { d \in [1..n -> 1..n] :
        /\ n > 0 => d[1] = 1
        /\ \A i \in 1..(n - 1) : d[i + 1] <= d[i] + 1 }

TreesOfSize(n) ==
    { [depth |-> d, label |-> l] : d \in DepthSeqs(n), l \in [1..n -> NodeLabels] }

\* Every parse tree the extractor is applied to.
TreesUpTo(max) == UNION { TreesOfSize(n) : n \in 0..max }

\* node.parent: 0 is the root, -1 is the root's missing parent
Parent(t, n) ==
    IF n = 0 THEN -1
    ELSE IF t.depth[n] = 1 THEN 0
    ELSE CHOOSE i \in 1..(n - 1) :
             /\ t.depth[i] = t.depth[n] - 1
             /\ \A j \in (i + 1)..(n - 1) : t.depth[j] >= t.depth[n]

NodeKind(t, n) == IF n = 0 THEN "SourceFile" ELSE Kind(t.label[n])

\* The children of a node, left to right, as ts.forEachChild hands them over.
RECURSIVE ChildrenFrom(_, _, _)
ChildrenFrom(t, n, from) ==
    IF from > Len(t.label) THEN <<>>
    ELSE IF Parent(t, from) = n THEN <<from>> \o ChildrenFrom(t, n, from + 1)
    ELSE ChildrenFrom(t, n, from + 1)

Children(t, n) == ChildrenFrom(t, n, n + 1)

\* The condition of visit's if statement.
IsTableNode(t, n) ==
    /\ NodeKind(t, n) = "PropertySignature"
    /\ Parent(t, n) >= 0
    /\ NodeKind(t, Parent(t, n)) = "TypeLiteral"
    /\ Parent(t, Parent(t, n)) >= 0
    /\ NodeKind(t, Parent(t, Parent(t, n))) = "PropertySignature"
    /\ NameKind(t.label[Parent(t, Parent(t, n))]) = "Identifier"
    /\ NameText(t.label[Parent(t, Parent(t, n))]) = Tables
    /\ NameKind(t.label[n]) = "Identifier"

\* visit(node): what it pushes on tableNames, itself first, then its children
\* left to right (ts.forEachChild).
RECURSIVE visit(_, _)
visit(t, n) ==
    LET cs == Children(t, n)
        sub[k \in 0..Len(cs)] ==
            IF k = 0 THEN <<>> ELSE sub[k - 1] \o visit(t, cs[k])
    IN (IF IsTableNode(t, n) THEN <<NameText(t.label[n])>> ELSE <<>>) \o sub[Len(cs)]

extractTableNames(t) == visit(t, 0)

\* ------------------------------------------------------------------ assembler

PLACEHOLDER == "// [TABLE_METHODS]"

\* Position of the first occurrence of a token in a text, 0 when it has none.
indexOf(text, tok) == IndexAfter(text, tok, 0)

\* The replacement text of String.prototype.replace after its dollar patterns
\* are expanded: a dollar sign followed by a dollar sign is one dollar sign,
\* followed by an ampersand the matched text, followed by a backtick the text
\* before the match, followed by a single quote the text after it; any other
\* dollar sign stands for itself (a string pattern has no capture groups).
\* The token for the backtick character.
Backtick == "<backtick>"

\* Concatenation of pieces[lo], ..., pieces[hi], by halves.
RECURSIVE Flatten(_, _, _)
Flatten(pieces, lo, hi) ==
    IF lo > hi THEN <<>>
    ELSE IF lo = hi THEN pieces[lo]
    ELSE LET mid == (lo + hi) \div 2
         IN Flatten(pieces, lo, mid) \o Flatten(pieces, mid + 1, hi)

\* The number of dollar signs that stand directly before position k.
DollarsBefore(text, k) ==
    CHOOSE m \in 0..(k - 1) :
        /\ \A j \in (k - m)..(k - 1) : text[j] = "$"
        /\ (m = k - 1 \/ text[k - m - 1] # "$")

\* Scanning left to right, a dollar sign opens a pattern when it is not itself
\* the second character of a pattern, which is when an even number of dollar
\* signs stands directly before it, and a pattern character follows it.
OpensPattern(text, k) ==
    /\ text[k] = "$"
    /\ DollarsBefore(text, k) % 2 = 0
    /\ k < Len(text)
    /\ text[k + 1] \in {"$", "&", Backtick, "'"}

GetSubstitution(matched, before, after, replacement) ==
    ValueOf({ Flatten(pieces, 1, Len(pieces)) : pieces \in {
        [k \in 1..Len(replacement) |->
            IF OpensPattern(replacement, k)
            THEN CASE replacement[k + 1] = "$" -> <<"$">>
                   [] replacement[k + 1] = "&" -> matched
                   [] replacement[k + 1] = Backtick -> before
                   [] OTHER -> after
            ELSE IF k > 1 /\ OpensPattern(replacement, k - 1) THEN <<>>
            ELSE <<replacement[k]>>] } })

\* text.replace(pattern, replacement) for a string pattern of one token: only
\* the first occurrence is replaced.
replace(text, pattern, replacement) ==
    ValueOf({ IF pos = 0 THEN t
              ELSE ValueOf({ before \o GetSubstitution(<<pattern>>, before, after, r) \o after
                             : before \in {SubSeq(t, 1, pos - 1)},
                               after \in {SubSeq(t, pos + 1, Len(t))} })
              : t \in {text}, r \in {replacement}, pos \in {indexOf(text, pattern)} })

\* tableNames.map(generateMethodsForTable).join(newline)
\* tableMethods with the first table's block in the place of every block.
tableMethodsOfFirstTable(tableNamesArg) ==
    ValueOf({ join([k \in 1..Len(names) |-> generateMethodsForTable(names[1])], <<"\n">>)
              : names \in {tableNamesArg} })

tableMethodsOf(tableNamesArg) ==
    ValueOf({ join([k \in 1..Len(names) |-> generateMethodsForTable(names[k])], <<"\n">>)
              : names \in {tableNamesArg} })

\* The template generateTemplateFile writes: the text up to the placeholder,
\* the placeholder, the text after it.
TemplateHead == "import { createClient } from './supabase'; ... // Generated CRUD methods for specific tables\n  "

TemplateTail == "\n}\n\n// Create and export a singleton instance ... export default API;"

templateContentNew == <<TemplateHead, PLACEHOLDER, TemplateTail>>

NoForms == [camel |-> <<>>, pascal |-> <<>>, singular |-> <<>>, plural |-> <<>>]

SynthInit ==
    /\ tableName \in RawNames
    /\ forms = NoForms
    /\ block = <<>>
    /\ synthPc = "input"

PipeIdle ==
    /\ schema = [depth |-> <<>>, label |-> <<>>]
    /\ pipePc = "idle"

RunIdle ==
    /\ typeFilePath = [given |-> FALSE]
    /\ outputFilePath = [given |-> FALSE]
    /\ typeFile = [exists |-> FALSE]
    /\ dirs = {}
    /\ files = <<>>
    /\ pc = "idle"
    /\ exitCode = -1
    /\ stderr = <<>>
    /\ templateContent = <<>>
    /\ runLog = <<>>

PipeInit ==
    /\ schema \in TreesUpTo(MaxNodes)
    /\ tableNames = <<>>
    /\ outputContent = <<>>
    /\ pipePc = "input"

\* Lines 448-459 of generateApiClass on a freshly written template: extract,
\* synthesize, join, substitute.
ExtractAndAssemble ==
    /\ pipePc = "input"
    /\ tableNames' = extractTableNames(schema)
    /\ outputContent' =
           replace(templateContentNew, PLACEHOLDER, tableMethodsOf(extractTableNames(schema)))
    /\ pipePc' = "done"
    /\ UNCHANGED <<schema, synthVars, runVars, primVars>>

\* Table identifiers for documents of two tables: short ones, the named ones,
\* and ones whose forms meet a verb or a primitive of the template.
PairNames ==
    BoundedSeq({"a", "s", "_"}, MaxLen) \cup NamedTables \cup
    { <<"a", "l", "l">>, <<"b", "y", "_", "i", "d">>, <<"m", "a", "n", "y">>,
      <<"b", "u", "s">>, <<"m", "a", "n", "y", "_", "b", "u", "s", "s">>,
      <<"A">> }

\* generateApiClass at line 450, with the identifiers extractTableNames gave
\* for a schema that declares two tables.
NamesInit ==
    /\ schema = [depth |-> <<>>, label |-> <<>>]
    /\ tableNames \in { <<t1, t2>> : t1 \in PairNames, t2 \in PairNames }
    /\ outputContent = <<>>
    /\ pipePc = "names"

\* Lines 450-459 of generateApiClass on a freshly written template:
\* synthesize, join, substitute.
Assemble ==
    /\ pipePc = "names"
    /\ outputContent' = replace(templateContentNew, PLACEHOLDER, tableMethodsOf(tableNames))
    /\ pipePc' = "done"
    /\ UNCHANGED <<schema, tableNames, synthVars, runVars, primVars>>

SynthIdle ==
    /\ tableName = <<>>
    /\ forms = NoForms
    /\ block = <<>>
    /\ synthPc = "idle"

\* A call of generateMethodsForTable (src/supabase-api-generator.ts).
Synthesize ==
    /\ synthPc = "input"
    /\ forms' = NameForms(tableName)
    /\ block' = generateMethodsForTable(tableName)
    /\ synthPc' = "done"
    /\ UNCHANGED <<tableName, schema, tableNames, outputContent, pipePc, runVars, primVars>>

\* A call of generateMethodsForTable of the compiled build.
SynthesizeDist ==
    /\ synthPc = "input"
    /\ forms' = NameFormsDist(tableName)
    /\ block' = generateMethodsForTableDist(tableName)
    /\ synthPc' = "done"
    /\ UNCHANGED <<tableName, schema, tableNames, outputContent, pipePc, runVars, primVars>>

\* ------------------------------------------------------------ generation run

\* Command-line arguments are either absent (undefined) or a non-empty path.
\* The output path is a directory and a base name; the schema path names a
\* file outside the output directories.
Dirs == {".", "gen"}

Bases == {"api.ts", "SupabaseApi.ts"}

Paths == Dirs \X Bases

NoFile == [exists |-> FALSE]

File(content) == [exists |-> TRUE, content |-> content]

NoArg == [given |-> FALSE]

TypeArgs == {NoArg, [given |-> TRUE]}

OutputArgs == {NoArg} \cup { [given |-> TRUE, dir |-> d, base |-> b] : d \in Dirs, b \in Bases }

OUTPUT_FILE_PATH == <<outputFilePath.dir, outputFilePath.base>>

TEMPLATE_FILE_PATH == <<outputFilePath.dir, "SupabaseApi.ts">>

\* The schema source  Tables: { <one property per label> }.
SchemaOf(labels) ==
    [depth |-> <<1, 2>> \o [k \in 1..Len(labels) |-> 3],
     label |-> <<"T", "L">> \o labels]

RunSchemas ==
    { SchemaOf(ls) : ls \in UNION { [1..k -> {"A", "D"}] : k \in 0..MaxTables } }

\* The template files a run may find: the one the generator writes, with its
\* one placeholder, and copies of it with the placeholder removed or repeated.
Templates ==
    { <<TemplateHead>> \o [i \in 1..k |-> PLACEHOLDER] \o <<TemplateTail>>
        : k \in 0..MaxPlaceholders }

\* The output document an earlier generation left behind.
OldOutput == <<"// output of an earlier run">>

EditMark == "// edited by hand\n"

UsageMessage == "Usage: ts-node supabase-api-generator.ts <type-file-path> <output-file-path>"

\* The argument check with "and" in the place of "or".
ArgsMissingBoth == ~typeFilePath.given /\ ~outputFilePath.given

\* !typeFilePath || !outputFilePath
ArgsMissing == ~typeFilePath.given \/ ~outputFilePath.given

\* generateTemplateFile: writes the template unless one exists; the write
\* throws when the directory does not exist.
generateTemplateFile(fs) ==
    IF fs[TEMPLATE_FILE_PATH].exists THEN [threw |-> FALSE, files |-> fs]
    ELSE IF outputFilePath.dir \notin dirs THEN [threw |-> TRUE, files |-> fs]
    ELSE [threw |-> FALSE,
          files |-> [fs EXCEPT ![TEMPLATE_FILE_PATH] = File(templateContentNew)]]

\* generateApiClass without the removal of the existing output file.
unlinkOutputSkipped(fs, unlinkFails) == fs

\* fs.unlinkSync(OUTPUT_FILE_PATH) inside its try block, when the file exists.
unlinkOutput(fs, unlinkFails) ==
    IF fs[OUTPUT_FILE_PATH].exists /\ ~unlinkFails
    THEN [fs EXCEPT ![OUTPUT_FILE_PATH] = NoFile]
    ELSE fs

\* fs.writeFileSync(OUTPUT_FILE_PATH, outputContent) of the timer callback.
writeOutput(fs, content) == [fs EXCEPT ![OUTPUT_FILE_PATH] = File(content)]

\* generateApiClass with the unlink outside any try block: a failing unlink
\* ends the call.
generateApiClassUncaughtUnlink(unlinkFails) ==
    ValueOf({
    IF g.threw \/ ~typeFile.exists
    THEN [threw |-> TRUE, files |-> g.files, dirs |-> dirs, tableNames |-> <<>>,
          templateContent |-> <<>>, outputContent |-> <<>>, unlinkFailed |-> FALSE]
    ELSE ValueOf({
         [threw |-> g.files[OUTPUT_FILE_PATH].exists /\ unlinkFails,
          files |-> unlinkOutput(g.files, unlinkFails),
          dirs |-> dirs \cup {outputFilePath.dir},
          tableNames |-> names,
          templateContent |-> g.files[TEMPLATE_FILE_PATH].content,
          outputContent |->
              replace(g.files[TEMPLATE_FILE_PATH].content, PLACEHOLDER, tableMethods),
          unlinkFailed |-> g.files[OUTPUT_FILE_PATH].exists /\ unlinkFails]
         : names \in {extractTableNames(typeFile.tree)},
           tableMethods \in {tableMethodsOf(extractTableNames(typeFile.tree))} })
    : g \in {generateTemplateFile(files)} })

\* The body of generateApiClass up to its setTimeout call: what it threw or
\* what it left behind.
generateApiClass(unlinkFails) ==
    ValueOf({
    IF g.threw \/ ~typeFile.exists
    THEN [threw |-> TRUE, files |-> g.files, dirs |-> dirs, tableNames |-> <<>>,
          templateContent |-> <<>>, outputContent |-> <<>>, unlinkFailed |-> FALSE]
    ELSE ValueOf({
         [threw |-> FALSE,
          files |-> unlinkOutput(g.files, unlinkFails),
          dirs |-> dirs \cup {outputFilePath.dir},
          tableNames |-> names,
          templateContent |-> g.files[TEMPLATE_FILE_PATH].content,
          outputContent |->
              replace(g.files[TEMPLATE_FILE_PATH].content, PLACEHOLDER, tableMethods),
          unlinkFailed |-> g.files[OUTPUT_FILE_PATH].exists /\ unlinkFails]
         : names \in {extractTableNames(typeFile.tree)},
           tableMethods \in {tableMethodsOf(extractTableNames(typeFile.tree))} })
    : g \in {generateTemplateFile(files)} })

\* What a run found when the process started.
RunRecord ==
    [filesAtStart |-> files,
     dirsAtStart |-> dirs,
     templateAtStart |-> IF outputFilePath.given THEN files[TEMPLATE_FILE_PATH] ELSE NoFile,
     unlinkFailed |-> FALSE,
     complete |-> FALSE,
     names |-> <<>>,
     templateRead |-> <<>>,
     templateAtEnd |-> NoFile,
     output |-> NoFile]

RunInit ==
    /\ typeFilePath \in TypeArgs
    /\ outputFilePath \in OutputArgs
    /\ typeFile \in {NoFile} \cup { [exists |-> TRUE, tree |-> t] : t \in RunSchemas }
    /\ dirs \in {{"."}, {".", "gen"}}
    /\ \E tf \in {NoFile} \cup { File(c) : c \in Templates },
          of \in {NoFile, File(OldOutput)} :
          LET dir == IF outputFilePath.given THEN outputFilePath.dir ELSE "."
          IN files = [p \in Paths |->
                        IF p[1] # dir \/ dir \notin dirs THEN NoFile
                        ELSE IF p[2] = "SupabaseApi.ts" THEN tf
                        ELSE IF outputFilePath.given /\ p[2] = outputFilePath.base THEN of
                        ELSE NoFile]
    /\ pc = "start"
    /\ exitCode = -1
    /\ stderr = <<>>
    /\ templateContent = <<>>
    /\ tableNames = <<>>
    /\ outputContent = <<>>
    /\ runLog = <<>>

\* The module top level: the argument check, the path resolution, and the
\* call of generateApiClass up to its return.
Main ==
    /\ pc = "start"
    /\ IF ArgsMissing
       THEN /\ stderr' = <<UsageMessage>>
            /\ exitCode' = 1
            /\ pc' = "exited"
            /\ runLog' = Append(runLog, RunRecord)
            /\ UNCHANGED <<files, dirs, tableNames, templateContent, outputContent>>
       ELSE IF ~typeFilePath.given \/ ~outputFilePath.given
       THEN \* path.resolve throws a TypeError on an undefined argument
            /\ stderr' = <<"TypeError">>
            /\ exitCode' = 1
            /\ pc' = "crashed"
            /\ runLog' = Append(runLog, RunRecord)
            /\ UNCHANGED <<files, dirs, tableNames, templateContent, outputContent>>
       ELSE \E unlinkFails \in BOOLEAN : \E r \in {generateApiClass(unlinkFails)} :
               /\ files' = r.files
               /\ dirs' = r.dirs
               /\ tableNames' = r.tableNames
               /\ templateContent' = r.templateContent
               /\ outputContent' = r.outputContent
               /\ runLog' = Append(runLog,
                                [RunRecord EXCEPT !.unlinkFailed = r.unlinkFailed,
                                                  !.names = r.tableNames,
                                                  !.templateRead = r.templateContent])
               /\ stderr' = IF r.threw THEN <<"Error">>
                            ELSE IF r.unlinkFailed THEN <<"Error deleting file">>
                            ELSE <<>>
               /\ exitCode' = IF r.threw THEN 1 ELSE -1
               /\ pc' = IF r.threw THEN "crashed" ELSE "scheduled"
    /\ UNCHANGED <<typeFilePath, outputFilePath, typeFile>>
    /\ UNCHANGED <<schema, pipePc, synthVars, primVars>>

\* The timer callback: the write of the output file, which may fail.
TimerFires ==
    /\ pc = "scheduled"
    /\ \E writeFails \in BOOLEAN :
          IF writeFails
          THEN /\ pc' = "crashed"
               /\ exitCode' = 1
               /\ stderr' = Append(stderr, "Error")
               /\ UNCHANGED <<files, runLog>>
          ELSE /\ files' = writeOutput(files, outputContent)
               /\ pc' = "done"
               /\ exitCode' = 0
               /\ runLog' = [runLog EXCEPT ![Len(runLog)] =
                                [@ EXCEPT !.complete = TRUE,
                                          !.templateAtEnd = files'[TEMPLATE_FILE_PATH],
                                          !.output = files'[OUTPUT_FILE_PATH]]]
               /\ UNCHANGED stderr
    /\ UNCHANGED <<typeFilePath, outputFilePath, typeFile, dirs,
                   tableNames, templateContent, outputContent>>
    /\ UNCHANGED <<schema, pipePc, synthVars, primVars>>

\* Between two runs the developer edits the output document by hand.
ManualEdit ==
    /\ pc = "done"
    /\ files[OUTPUT_FILE_PATH].exists
    /\ LET c == files[OUTPUT_FILE_PATH].content
       IN /\ (IF Len(c) = 0 THEN TRUE ELSE c[1] # EditMark)
          /\ files' = [files EXCEPT ![OUTPUT_FILE_PATH] = File(<<EditMark>> \o c)]
    /\ UNCHANGED <<typeFilePath, outputFilePath, typeFile, dirs, pc, exitCode, stderr,
                   tableNames, templateContent, outputContent, runLog>>
    /\ UNCHANGED <<schema, pipePc, synthVars, primVars>>

\* The program is started again with the same arguments.
Rerun ==
    /\ pc \in {"done", "crashed", "exited"}
    /\ Len(runLog) < MaxRuns
    /\ \A p \in Paths : files[p].exists => Len(files[p].content) <= MaxDocLen
    /\ pc' = "start"
    /\ exitCode' = -1
    /\ stderr' = <<>>
    /\ tableNames' = <<>>
    /\ templateContent' = <<>>
    /\ outputContent' = <<>>
    /\ UNCHANGED <<typeFilePath, outputFilePath, typeFile, dirs, files, runLog>>
    /\ UNCHANGED <<schema, pipePc, synthVars, primVars>>

\* ------------------------------------------------ the template's primitives
\*
\* The primitives of the class the template declares.  Each builds a query,
\* awaits the data store's reply { data, error } and returns or throws; the
\* data store is a collaborator whose reply is any of the replies it can
\* give to the request.

Primitives ==
    {"getAll", "getById", "create", "createMany", "update", "updateMany", "delete"}

PrimTables == {"a", "user_type"}
Ids == {1, 2}
Payloads == {"x", "y"}

NOT_FOUND == "PGRST116"
ErrorCodes == {NOT_FOUND, "23505"}

Null == [type |-> "null"]
Undefined == [type |-> "undefined"]
Error(code) == [type |-> "error", code |-> code]
Row(id, data) == [type |-> "row", id |-> id, data |-> data]
Array(items) == [type |-> "array", items |-> items]

Errors == { Error(c) : c \in ErrorCodes }

\* The entries of updateMany's updates argument, and the lists of them.
UpdateRequests == { [id |-> i, data |-> d] : i \in Ids, d \in Payloads }
UpdateLists == UNION { [1..n -> UpdateRequests] : n \in 0..MaxUpdates }

\* The lists handed to createMany.
InsertLists == { <<>>, <<"x">>, <<"x", "y">> }

\* The requests the primitives send.
SelectAll(t) == [op |-> "select", table |-> t]
SelectSingle(t, id) == [op |-> "select.eq.single", table |-> t, id |-> id]
InsertSingle(t, data) == [op |-> "insert.select.single", table |-> t, data |-> data]
InsertSelect(t, data) == [op |-> "insert.select", table |-> t, data |-> data]
UpdateSingle(t, id, data) ==
    [op |-> "update.eq.select.single", table |-> t, id |-> id, data |-> data]
DeleteEq(t, id) == [op |-> "delete.eq", table |-> t, id |-> id]

Ok(data) == [data |-> data, error |-> Null]
Failed(error) == [data |-> Null, error |-> error]

\* The replies the data store can give to a request.
Replies(request) ==
    { Failed(e) : e \in Errors } \cup
    CASE request.op = "select" ->
            { Ok(Null), Ok(Array(<<>>)), Ok(Array(<<Row(1, "x"), Row(2, "y")>>)) }
      [] request.op = "select.eq.single" ->
            { Ok(Row(request.id, d)) : d \in Payloads }
      [] request.op = "insert.select.single" ->
            { Ok(Row(i, request.data)) : i \in Ids }
      [] request.op = "insert.select" ->
            { Ok(Null),
              Ok(Array([k \in 1..Len(request.data) |-> Row(k, request.data[k])])) }
      [] request.op = "update.eq.select.single" ->
            { Ok(Row(request.id, request.data)) }
      [] OTHER -> { Ok(Null) }

Pending == [kind |-> "pending"]
Returned(value) == [kind |-> "returned", value |-> value]
Threw(error) == [kind |-> "threw", value |-> error]

\* The primitives that give null for the record-not-found code.
ReturnsNullOnNotFoundUpdate(prim) == prim \in {"getById", "update"}

ReturnsNullOnNotFound(prim) == prim = "getById"

\* What a primitive with one await does with the reply: it throws the error
\* it was given (its catch block logs it and throws it again), or returns.
AfterAwait(prim, reply) ==
    IF reply.error # Null
    THEN IF ReturnsNullOnNotFound(prim) /\ reply.error.code = NOT_FOUND
         THEN Returned(Null)
         ELSE Threw(reply.error)
    ELSE CASE prim \in {"getAll", "createMany"} ->
                Returned(IF reply.data = Null THEN Array(<<>>) ELSE reply.data)
           [] prim = "delete" -> Returned(Undefined)
           [] OTHER -> Returned(reply.data)

\* updateMany's loop body with the skip of a failed request in place of the
\* throw.
updateManyStepSkipFailed(updates, records, k, reply) ==
    LET pushed == IF reply.error # Null THEN records ELSE Append(records, reply.data)
    IN [result |-> IF k < Len(updates) THEN Pending ELSE Returned(Array(pushed)),
        records |-> pushed]

\* updateMany's loop body after the await of request k, and the return after
\* the last request: the result so far and the records pushed.
updateManyStep(updates, records, k, reply) ==
    IF reply.error # Null
    THEN [result |-> Threw(reply.error), records |-> records]
    ELSE LET pushed == Append(records, reply.data)
         IN [result |-> IF k < Len(updates) THEN Pending ELSE Returned(Array(pushed)),
             records |-> pushed]

PrimIdle ==
    /\ primCall = [prim |-> "none"]
    /\ primPc = "idle"
    /\ storeLog = <<>>
    /\ replyLog = <<>>
    /\ updatedRecords = <<>>
    /\ primResult = Pending
    /\ consoleLog = <<>>

\* A call up to its first await.
Send(call, request) ==
    /\ primCall' = call
    /\ primPc' = "awaiting"
    /\ storeLog' = Append(storeLog, request)
    /\ UNCHANGED <<replyLog, updatedRecords, primResult, consoleLog>>
    /\ UNCHANGED <<synthVars, pipeVars, runVars>>

getAll ==
    /\ primPc = "idle"
    /\ \E t \in PrimTables :
        Send([prim |-> "getAll", table |-> t], SelectAll(t))

getById ==
    /\ primPc = "idle"
    /\ \E t \in PrimTables, id \in Ids :
        Send([prim |-> "getById", table |-> t, id |-> id], SelectSingle(t, id))

create ==
    /\ primPc = "idle"
    /\ \E t \in PrimTables, d \in Payloads :
        Send([prim |-> "create", table |-> t, data |-> d], InsertSingle(t, d))

createMany ==
    /\ primPc = "idle"
    /\ \E t \in PrimTables, ds \in InsertLists :
        Send([prim |-> "createMany", table |-> t, data |-> ds], InsertSelect(t, ds))

update ==
    /\ primPc = "idle"
    /\ \E t \in PrimTables, id \in Ids, d \in Payloads :
        Send([prim |-> "update", table |-> t, id |-> id, data |-> d],
             UpdateSingle(t, id, d))

delete ==
    /\ primPc = "idle"
    /\ \E t \in PrimTables, id \in Ids :
        Send([prim |-> "delete", table |-> t, id |-> id], DeleteEq(t, id))

\* updateMany up to its first await, or to its return when the list is empty.
updateMany ==
    /\ primPc = "idle"
    /\ \E t \in PrimTables, us \in UpdateLists :
        LET call == [prim |-> "updateMany", table |-> t, updates |-> us]
        IN IF us = <<>>
           THEN /\ primCall' = call
                /\ primPc' = "returned"
                /\ primResult' = Returned(Array(<<>>))
                /\ UNCHANGED <<storeLog, replyLog, updatedRecords, consoleLog>>
                /\ UNCHANGED <<synthVars, pipeVars, runVars>>
           ELSE Send(call, UpdateSingle(t, us[1].id, us[1].data))

\* The data store replies and the awaiting primitive runs on to its next
\* await, its return or its throw.
StoreReplies ==
    /\ primPc = "awaiting"
    /\ \E reply \in Replies(storeLog[Len(storeLog)]) :
        /\ replyLog' = Append(replyLog, reply)
        /\ IF primCall.prim = "updateMany"
           THEN \E step \in {updateManyStep(primCall.updates, updatedRecords, Len(storeLog), reply)} :
                /\ updatedRecords' = step.records
                /\ primResult' = step.result
                /\ IF step.result = Pending
                   THEN LET next == primCall.updates[Len(storeLog) + 1]
                        IN storeLog' = Append(storeLog,
                               UpdateSingle(primCall.table, next.id, next.data))
                   ELSE UNCHANGED storeLog
           ELSE /\ primResult' = AfterAwait(primCall.prim, reply)
                /\ UNCHANGED <<storeLog, updatedRecords>>
    /\ primPc' = IF primResult'.kind = "pending" THEN "awaiting" ELSE primResult'.kind
    /\ consoleLog' = IF primResult'.kind = "threw"
                     THEN Append(consoleLog,
                              [prim |-> primCall.prim, table |-> primCall.table,
                               error |-> primResult'.value])
                     ELSE consoleLog
    /\ UNCHANGED primCall
    /\ UNCHANGED <<synthVars, pipeVars, runVars>>

NextPrimitives ==
    \/ getAll
    \/ getById
    \/ create
    \/ createMany
    \/ update
    \/ updateMany
    \/ delete
    \/ StoreReplies


Init == RunInit /\ PipeIdle /\ SynthIdle /\ PrimIdle

Next == Main \/ TimerFires \/ ManualEdit \/ Rerun

Spec == Init /\ [][Next]_vars

NoOutput ==
    /\ tableNames = <<>>
    /\ outputContent = <<>>

InitSynth == SynthInit /\ PipeIdle /\ NoOutput /\ RunIdle /\ PrimIdle

SpecSynth == InitSynth /\ [][Synthesize]_vars

SpecDist == InitSynth /\ [][SynthesizeDist]_vars

InitPipe == PipeInit /\ SynthIdle /\ RunIdle /\ PrimIdle

SpecPipe == InitPipe /\ [][ExtractAndAssemble]_vars

InitNames == NamesInit /\ SynthIdle /\ RunIdle /\ PrimIdle

SpecNames == InitNames /\ [][Assemble]_vars

InitPrimitives == PrimIdle /\ SynthIdle /\ PipeIdle /\ NoOutput /\ RunIdle

SpecPrimitives == InitPrimitives /\ [][NextPrimitives]_vars

\* ---------------------------------------------- reading a block back (C1-C3)

\* The lines of a block: the text between two line starts.
LinesOf(text) == Tail(split(text, NL))

IsMethodLine(line) ==
    /\ Len(line) > 0
    /\ line[1] # "// "
    /\ IndexAfter(line, " = (", 1) > 0
    /\ IndexAfter(line, ") => this.", IndexAfter(line, " = (", 1)) > 0

\* What one member line declares: its name (verb and suffix), the parameters it
\* takes, the primitive it calls, the quoted first argument and the parameters
\* it passes on after it.
ParseMethod(line) ==
    LET i == IndexAfter(line, " = (", 1)
        j == IndexAfter(line, ") => this.", i)
        q == IndexAfter(line, "'", j + 3)
    IN [verb |-> line[1],
        name |-> SubSeq(line, 2, i - 1),
        params |-> SelectSeq(SubSeq(line, i + 1, j - 1), LAMBDA t : t \in ParamNames),
        prim |-> line[j + 1],
        quoted |-> line[j + 2] = "(" /\ line[j + 3] = "'" /\ q > 0,
        table |-> SubSeq(line, j + 4, q - 1),
        args |-> SelectSeq(SubSeq(line, q + 1, Len(line)), LAMBDA t : t \in ParamNames)]

MethodsOf(text) ==
    LET ls == SelectSeq(LinesOf(text), IsMethodLine)
    IN [k \in 1..Len(ls) |-> ParseMethod(ls[k])]

\* The member the specification describes: <verb><name> forwarding to prim.
Forwarder(verb, name, prim, table, ps) ==
    [verb |-> verb, name |-> name, params |-> ps, prim |-> prim,
     quoted |-> TRUE, table |-> table, args |-> ps]

SevenMethods(table, singular, plural) ==
    << Forwarder("get", plural, "getAll", table, <<"options">>),
       Forwarder("get", singular, "getById", table, <<"id", "options">>),
       Forwarder("create", singular, "create", table, <<"data">>),
       Forwarder("createMany", plural, "createMany", table, <<"data">>),
       Forwarder("update", singular, "update", table, <<"id", "data", "options">>),
       Forwarder("updateMany", plural, "updateMany", table, <<"updates", "options">>),
       Forwarder("delete", singular, "delete", table, <<"id", "options">>) >>

\* C1: for every table identifier the generated block declares exactly the
\* seven members get<Plural>, get<Singular>, create<Singular>,
\* createMany<Plural>, update<Singular>, updateMany<Plural>, delete<Singular>,
\* each forwarding to its generic primitive with the raw identifier as first
\* argument and its own parameters passed on unchanged, in order.
C1_SevenForwardingMethods ==
    synthPc = "done" =>
        MethodsOf(block) = SevenMethods(tableName, forms.singular, forms.plural)

\* The general singular/plural rule, as the specification words it.
PluralLooking(pascal) ==
    /\ endsWith(pascal, <<"s">>)
    /\ ~endsWith(pascal, <<"s", "s">>)
    /\ ~endsWith(pascal, <<"u", "s">>)
    /\ ~endsWith(pascal, <<"i", "s">>)

FollowsGeneralRule(f) ==
    IF PluralLooking(f.pascal)
    THEN f.singular \o <<"s">> = f.pascal /\ f.plural = f.pascal
    ELSE f.singular = f.pascal /\ f.plural = f.pascal \o <<"s">>

\* C2: an identifier outside the override table gets singular = pascal less
\* its final 's' and plural = pascal when pascal ends in 's' but not in 'ss',
\* 'us' or 'is'; otherwise singular = pascal and plural = pascal + 's'.
C2_GeneralRule ==
    (synthPc = "done" /\ tableName # user_type) =>
        /\ forms.pascal = toPascalCase(tableName)
        /\ FollowsGeneralRule(forms)

\* C3: 'user_type' always yields UserType / UserTypes and the seven members
\* named after them; any other identifier, however close to the key, is left
\* to the general rule.
C3_OverrideWins ==
    synthPc = "done" =>
        IF tableName = user_type
        THEN /\ forms.singular = UserType
             /\ forms.plural = UserTypes
             /\ MethodsOf(block) = SevenMethods(user_type, UserType, UserTypes)
        ELSE FollowsGeneralRule(forms)

C3_Witness ==
    /\ synthPc = "done"
    /\ tableName = user_type
    /\ Len(MethodsOf(block)) = 7

\* ------------------------------------------------ extraction and order (C4)

\* The nodes of a tree that satisfy the ancestry pattern.
TableNodes(t) == { n \in 1..Len(t.label) : IsTableNode(t, n) }

\* The place of node n among the nodes of S, in source order.
RankIn(S, n) == Cardinality({ m \in S : m <= n })

\* Where the i-th block starts in an output document made from the template
\* the generator writes: after the head, the earlier blocks and a newline each.
RECURSIVE BlockOffset(_, _)
BlockOffset(names, i) ==
    IF i = 1 THEN 1
    ELSE BlockOffset(names, i - 1) + Len(generateMethodsForTable(names[i - 1])) + 1

\* One entry per node that satisfies the pattern, in source order, duplicates
\* kept.
C4_ExtractionOrder ==
    pipePc = "done" =>
        /\ Len(tableNames) = Cardinality(TableNodes(schema))
        /\ \A n \in TableNodes(schema) :
               tableNames[RankIn(TableNodes(schema), n)] = NameText(schema.label[n])

\* The i-th block of the output document is the block generated for the
\* i-th extracted identifier.
C4_BlocksInOrder ==
    pipePc = "done" =>
        \A i \in 1..Len(tableNames) :
            LET b == generateMethodsForTable(tableNames[i])
                off == BlockOffset(tableNames, i)
            IN /\ off + Len(b) <= Len(outputContent)
               /\ SubSeq(outputContent, off + 1, off + Len(b)) = b

\* C4: extraction order is preserved end to end: extractTableNames returns
\* one entry per node that satisfies the ancestry pattern, in traversal order
\* with duplicates kept, and the i-th block of the output document is the
\* block generated for the i-th extracted identifier.
C4_OrderEndToEnd == C4_ExtractionOrder /\ C4_BlocksInOrder

\* C4, for schemas none of whose table identifiers holds a dollar sign.
C4_OrderWithoutDollar ==
    (\A i \in 1..Len(tableNames) : \A k \in 1..Len(tableNames[i]) : tableNames[i][k] # "$")
        => C4_OrderEndToEnd

\* ------------------------------------------------- generation runs (C5-C7, C10)

\* The text with the first occurrence of the placeholder replaced by the
\* joined blocks as they are.
VerbatimReplace(text, joined) ==
    LET pos == indexOf(text, PLACEHOLDER)
    IN IF pos = 0 THEN text
       ELSE SubSeq(text, 1, pos - 1) \o joined \o SubSeq(text, pos + 1, Len(text))

\* C5: the written output document is the template as read, with the first
\* occurrence of the placeholder replaced by exactly the method blocks joined
\* by newlines, character for character, and nothing else changed.
C5_PlaceholderSubstitution ==
    \A i \in 1..Len(runLog) :
        runLog[i].complete =>
            runLog[i].output =
                File(VerbatimReplace(runLog[i].templateRead, tableMethodsOf(runLog[i].names)))

\* C6: a template file that exists when a run starts still exists, with the
\* same content, when the run has finished.
C6_TemplateUntouched ==
    \A i \in 1..Len(runLog) :
        (runLog[i].complete /\ runLog[i].templateAtStart.exists) =>
            runLog[i].templateAtEnd = runLog[i].templateAtStart

\* C6, for output paths whose base name is not the template's.
C6_UntouchedUnlessSamePath ==
    (outputFilePath.given /\ OUTPUT_FILE_PATH # TEMPLATE_FILE_PATH) => C6_TemplateUntouched

\* C7: two complete runs in a row, with the schema file and the template file
\* unchanged between them, leave the same output document, whatever was done
\* to the output document in between.
C7_IdempotentByOverwrite ==
    \A i \in 1..(Len(runLog) - 1) :
        ( /\ runLog[i].complete
          /\ runLog[i + 1].complete
          /\ runLog[i + 1].templateAtStart = runLog[i].templateAtEnd )
            => runLog[i + 1].output = runLog[i].output

\* C7, for output paths whose base name is not the template's.
C7_IdempotentUnlessSamePath ==
    (outputFilePath.given /\ OUTPUT_FILE_PATH # TEMPLATE_FILE_PATH) => C7_IdempotentByOverwrite

\* C10: with the schema path or the output path missing, the process prints
\* the usage message to the error stream and exits with status 1, and no file
\* or directory is created, deleted or modified.
C10_UsageExit ==
    (pc # "start" /\ (~typeFilePath.given \/ ~outputFilePath.given)) =>
        /\ pc = "exited"
        /\ exitCode = 1
        /\ stderr = <<UsageMessage>>
        /\ files = runLog[Len(runLog)].filesAtStart
        /\ dirs = runLog[Len(runLog)].dirsAtStart

C10_Witness ==
    /\ pc = "exited"
    /\ typeFilePath.given
    /\ ~outputFilePath.given
    /\ typeFile.exists
    /\ \E p \in Paths : files[p].exists

\* ------------------------------------------------- the primitives (C8, C9)

\* C8: updateMany sends its update requests one at a time in list order; when
\* request k is the first to fail, requests 1..k-1 have been applied,
\* requests k+1..n are never sent, the error of request k is thrown to the
\* caller and no list of partial results is returned; when no request fails
\* the result lists the n updated records in request order.
C8_SequentialAbort ==
    primCall.prim = "updateMany" =>
        LET us == primCall.updates
            n == Len(us)
            sent == Len(storeLog)
            k == Len(replyLog)
        IN /\ sent <= n
           /\ \A j \in 1..sent :
                  storeLog[j] = UpdateSingle(primCall.table, us[j].id, us[j].data)
           /\ k \in {sent - 1, sent}
           /\ \A j \in 1..(k - 1) : replyLog[j] = Ok(Row(us[j].id, us[j].data))
           /\ primPc = "awaiting" => (sent = k + 1 /\ primResult = Pending)
           /\ primPc = "threw" =>
                  /\ k >= 1
                  /\ replyLog[k].error # Null
                  /\ sent = k
                  /\ primResult = Threw(replyLog[k].error)
           /\ primPc = "returned" =>
                  /\ sent = n
                  /\ k = n
                  /\ \A j \in 1..n : replyLog[j].error = Null
                  /\ primResult = Returned(Array([j \in 1..n |-> replyLog[j].data]))

\* The second of three requests failed.
C8_Witness ==
    /\ primCall.prim = "updateMany"
    /\ Len(primCall.updates) = 3
    /\ primPc = "threw"
    /\ Len(replyLog) = 2
    /\ Len(storeLog) = 2
    /\ replyLog[1].error = Null

LastReply == replyLog[Len(replyLog)]

\* C9: when the data store returns an error, each of the seven primitives
\* throws that same error to its caller, unless the error has the
\* record-not-found code, in which case the primitive returns null.
C9_NotFoundIsNullEverywhere ==
    (replyLog # <<>> /\ LastReply.error # Null) =>
        IF LastReply.error.code = NOT_FOUND
        THEN primResult = Returned(Null)
        ELSE primResult = Threw(LastReply.error)

\* C9 as amended: when the data store returns an error, each of the seven
\* primitives throws that same error to its caller, except that getById
\* returns null when the error has the record-not-found code.
C9_ErrorPropagation ==
    (replyLog # <<>> /\ LastReply.error # Null) =>
        IF primCall.prim = "getById" /\ LastReply.error.code = NOT_FOUND
        THEN primResult = Returned(Null)
        ELSE primResult = Threw(LastReply.error)

\* getById was answered with the record-not-found code and returned null.
C9_Witness ==
    /\ primCall.prim = "getById"
    /\ replyLog # <<>>
    /\ LastReply.error = Error(NOT_FOUND)
    /\ primResult = Returned(Null)

\* ------------------------------------------------- identifier forms (C11)

\* The positions of r that hold no underscore, and the k-th of them.
Kept(r) == { k \in 1..Len(r) : r[k] # "_" }

KeptAt(r, i) == CHOOSE k \in Kept(r) : Cardinality({ j \in Kept(r) : j <= k }) = i

\* Position k of r starts a segment, or lies in the first segment.
StartsSegment(r, k) == k = 1 \/ r[k - 1] = "_"

InFirstSegment(r, k) == \A j \in 1..k : r[j] # "_"

\* The characters of r outside the underscores, in order, each one
\* upper-cased where upper(r, k) says so and lower-cased elsewhere.
Recased(r, upper(_, _)) ==
    [i \in 1..Cardinality(Kept(r)) |->
        LET k == KeptAt(r, i)
        IN IF upper(r, k) THEN toUpperCaseChar(r[k]) ELSE toLowerCaseChar(r[k])]

UpperInCamel(r, k) == StartsSegment(r, k) /\ ~InFirstSegment(r, k)

\* C11: for every raw identifier the pascal form holds no underscore and is
\* the concatenation, in order, of the underscore-delimited segments, each
\* with its first character upper-cased and the rest lower-cased; the camel
\* form is the same except that the first segment is all lower-cased.
C11_PascalAndCamel ==
    synthPc = "done" =>
        /\ \A k \in 1..Len(forms.pascal) : forms.pascal[k] # "_"
        /\ forms.pascal = Recased(tableName, StartsSegment)
        /\ forms.camel = Recased(tableName, UpperInCamel)

\* An identifier of two non-empty segments whose forms differ from it.
C11_Witness ==
    /\ synthPc = "done"
    /\ \E k \in 2..(Len(tableName) - 1) :
           /\ tableName[k] = "_"
           /\ tableName[1] # "_"
           /\ tableName[k + 1] # "_"
    /\ forms.pascal # forms.camel
    /\ \E k \in 2..Len(tableName) : tableName[k] = "S" /\ tableName[k - 1] # "_"

\* ------------------------------------------------- failed removal (C12)

LastRun == runLog[Len(runLog)]

\* C12: when an output document exists and its removal fails, the run does
\* not abort: the failure is logged, the write is still scheduled, and a
\* write that succeeds leaves exactly the newly assembled document at the
\* output path; the failed removal changes no file, and the content written
\* is the one assembled from the template read and the extracted names.
C12_RemovalFailureNotFatal ==
    (runLog # <<>> /\ LastRun.unlinkFailed) =>
        /\ pc # "exited"
        /\ pc = "scheduled" =>
               /\ files[OUTPUT_FILE_PATH].exists
               /\ exitCode = -1
               /\ stderr = <<"Error deleting file">>
               /\ \A p \in Paths :
                      files[p] = IF p = TEMPLATE_FILE_PATH /\ ~LastRun.templateAtStart.exists
                                 THEN File(templateContentNew)
                                 ELSE LastRun.filesAtStart[p]
               /\ outputContent =
                      replace(LastRun.templateRead, PLACEHOLDER, tableMethodsOf(LastRun.names))
               /\ LastRun.templateRead = files[TEMPLATE_FILE_PATH].content
        /\ pc = "crashed" => stderr = <<"Error deleting file", "Error">>
        /\ pc = "done" =>
               /\ LastRun.complete
               /\ exitCode = 0
               /\ LastRun.output = File(outputContent)

\* The removal of an earlier output failed and the new document replaced it.
C12_Witness ==
    /\ pc = "done"
    /\ runLog # <<>>
    /\ LastRun.unlinkFailed
    /\ LastRun.filesAtStart[OUTPUT_FILE_PATH] = File(OldOutput)
    /\ files[OUTPUT_FILE_PATH] = LastRun.output
    /\ LastRun.output # File(OldOutput)
    /\ LastRun.names # <<>>

\* ------------------------------------------------- member names (C13)

\* The characters of a verb of the generated members, of a primitive's name
\* and of the words a form can complete a primitive's name with.
Spell(word) ==
    CASE word = "get" -> <<"g", "e", "t">>
      [] word = "create" -> <<"c", "r", "e", "a", "t", "e">>
      [] word = "update" -> <<"u", "p", "d", "a", "t", "e">>
      [] word = "delete" -> <<"d", "e", "l", "e", "t", "e">>
      [] word = "Many" -> <<"M", "a", "n", "y">>
      [] word = "All" -> <<"A", "l", "l">>
      [] word = "ById" -> <<"B", "y", "I", "d">>
      [] word = "createMany" -> <<"c", "r", "e", "a", "t", "e", "M", "a", "n", "y">>
      [] word = "updateMany" -> <<"u", "p", "d", "a", "t", "e", "M", "a", "n", "y">>
      [] word = "getAll" -> <<"g", "e", "t", "A", "l", "l">>
      [] word = "getById" -> <<"g", "e", "t", "B", "y", "I", "d">>

PrimitiveNames == { Spell(prim) : prim \in Primitives }

\* The names of the members an output document declares, in order.
MemberNames(doc) ==
    LET ms == MethodsOf(doc)
    IN [k \in 1..Len(ms) |-> Spell(ms[k].verb) \o ms[k].name]

\* The names the k-th table declares, in a list of the member names of a
\* document of seven-member blocks.
NamesOfTable(names, k) == { names[i] : i \in (7 * (k - 1) + 1)..(7 * k) }

FormsMeet(f, g) ==
    \/ {f.singular, f.plural} \cap {g.singular, g.plural} # {}
    \/ f.singular = Spell("Many") \o g.plural
    \/ g.singular = Spell("Many") \o f.plural

Returned14 == runLog # <<>> /\ pc \in {"scheduled", "done", "crashed"} /\ LastRun.templateRead # <<>>

\* The file at the output path when the removal was tried: what the run
\* found there, or the template the run had just written to that same path.
OutputBeforeRemoval ==
    IF OUTPUT_FILE_PATH = TEMPLATE_FILE_PATH /\ ~LastRun.templateAtStart.exists
    THEN File(templateContentNew)
    ELSE LastRun.filesAtStart[OUTPUT_FILE_PATH]

\* The file the run has left at the output path: the one there while the
\* run is under way or has crashed, the one its write left once it is done.
OutputLeft == IF pc = "done" THEN LastRun.output ELSE files[OUTPUT_FILE_PATH]

\* C14: when a call of generateApiClass has returned, the output path holds
\* the newly assembled document; a run that removed an earlier output ends
\* with an output document present.
C14_WrittenOnReturn ==
    Returned14 =>
        /\ OutputLeft = File(outputContent)
        /\ (pc \in {"done", "crashed"} /\ OutputBeforeRemoval.exists)
               => OutputLeft.exists

\* C14 as amended: generateApiClass returns with the write of the output
\* document pending on a timer.  From the return until the timer callback
\* runs the output path holds no file when the removal succeeded or nothing
\* was there, and the earlier file when the removal failed; once the callback
\* has written, it holds the newly assembled document; a run whose deferred
\* write fails ends with the output path as the return left it, so a run that
\* removed an earlier output can end without an output document.
C14_WrittenByTimer ==
    Returned14 =>
        /\ outputContent # <<>>
        /\ pc \in {"scheduled", "crashed"} =>
               files[OUTPUT_FILE_PATH] =
                   IF LastRun.unlinkFailed THEN OutputBeforeRemoval ELSE NoFile
        /\ pc = "done" => (LastRun.complete /\ OutputLeft = File(outputContent))

\* The call returned after it removed an earlier output: no output document.
C14_Witness ==
    /\ Returned14
    /\ pc = "scheduled"
    /\ LastRun.filesAtStart[OUTPUT_FILE_PATH] = File(OldOutput)
    /\ ~files[OUTPUT_FILE_PATH].exists
    /\ outputContent # <<>>

====
